---- MODULE Spec2Model ----
(***************************************************************************)
(* Execution core of the "arbitrary" state machine of ec2/cannon:          *)
(*   - the transfer executor (arbitrary-state-machine/src/main.rs),        *)
(*   - the contract executor and its trie-backed storage adapter           *)
(*     (arbitrary-state-machine/src/lib.rs),                               *)
(*   - the wasm VM host and its host functions (src/vm.rs),                *)
(*   - the flipper contract (contracts/flipper/src/lib.rs).                *)
(* The authenticated trie, the RLP encoding and the hash are libraries the *)
(* repository links against; they are modelled after sections 3, 4.1, 4.2  *)
(* and 6 of the specification.                                             *)
(***************************************************************************)
EXTENDS Integers, Sequences, FiniteSets, TLC

\* ------------------------------------------------------------------ bounds
\* Longest block (number of transactions) the transfer executor is given.
MaxTxs == 2
\* Number of blocks executed on top of the genesis block.
MaxBlocks == 2
\* Number of contract invocations of one run (test harness or block).
MaxInvocations == 2
\* Host calls the contracts written against the SDK make in one run.
MaxHostCalls == 2

\* ---------------------------------------------------------------- constants
\* vm::Bytes32 = [u8; 32]; H256 is 32 bytes as well.
HashLen == 32
\* Balance of account 1 in the genesis state.
GenesisBalance == 100
\* Pages of the linear memory created for a contract.
InitialPages == 16
\* Bytes of a wasm page (64 KiB).
PageSize == 65536

\* ----------------------------------------------------------- small helpers
Min(a, b) == IF a < b THEN a ELSE b

SetMax(S) == CHOOSE x \in S : \A y \in S : y <= x

Drop(s, n) == SubSeq(s, n + 1, Len(s))

Take(s, n) == SubSeq(s, 1, n)

\* Length of the longest common prefix of two sequences.
CommonPrefixLen(a, b) ==
    SetMax({k \in 0..Min(Len(a), Len(b)) : \A i \in 1..k : a[i] = b[i]})

\* f with the pairs of g added, g winning (HashMap::extend).
Override(f, g) ==
    [k \in (DOMAIN f) \cup (DOMAIN g) |-> IF k \in DOMAIN g THEN g[k] ELSE f[k]]

Restrict(f, S) == [k \in S |-> f[k]]

\* ------------------------------------------------- hash + encoding
\* H256::from(n) for n < 256: big-endian, the value in the last byte.
H256From(n) == [i \in 1..HashLen |-> IF i = HashLen THEN n ELSE 0]

\* [b; 32]
Bytes32Of(b) == [i \in 1..HashLen |-> b]

\* Two nibbles per byte, high nibble first.
ToNibbles(bytes) ==
    [i \in 1..(2 * Len(bytes)) |->
        IF i % 2 = 1 THEN bytes[(i + 1) \div 2] \div 16 ELSE bytes[i \div 2] % 16]

RECURSIVE BigEndian(_)
\* Minimal big-endian bytes of a number (zero is the empty string).
BigEndian(n) == IF n = 0 THEN <<>> ELSE Append(BigEndian(n \div 256), n % 256)

RECURSIVE FromBigEndian(_)
FromBigEndian(b) ==
    IF b = <<>> THEN 0 ELSE 256 * FromBigEndian(Take(b, Len(b) - 1)) + b[Len(b)]

\* rlp::encode(&U256): a single byte below 0x80 is itself, otherwise
\* 0x80 + length followed by the minimal big-endian bytes.
RlpEncode(n) ==
    LET b == BigEndian(n)
    IN  IF Len(b) = 1 /\ b[1] < 128 THEN b ELSE <<128 + Len(b)>> \o b

\* rlp::decode::<U256>
RlpDecode(bytes) ==
    IF Len(bytes) = 1 /\ bytes[1] < 128 THEN bytes[1] ELSE FromBigEndian(Tail(bytes))

\* The hash of a node payload.  The hash is treated as collision free
\* (spec 4.1), so it is the payload under a tag.
Hash(payload) == [h |-> payload]

\* ------------------------------------------------ authenticated trie
Leaf(p, v) == [kind |-> "leaf", path |-> p, children |-> <<>>, value |-> v]

Extension(p, c) == [kind |-> "ext", path |-> p, children |-> <<c>>, value |-> <<>>]

Branch(ch, v) == [kind |-> "branch", path |-> <<>>, children |-> ch, value |-> v]

EmptyNode == [kind |-> "empty", path |-> <<>>, children |-> <<>>, value |-> <<>>]

\* Root of the empty trie.
EMPTY_TRIE_HASH == Hash(EmptyNode)

\* H256::zero()
ZeroHash == Hash([kind |-> "zero", path |-> <<>>, children |-> <<>>, value |-> <<>>])

GetErr == [tag |-> "Err", val |-> <<>>]

GetNone == [tag |-> "None", val |-> <<>>]

GetSome(v) == [tag |-> "Some", val |-> v]

RECURSIVE GetAt(_, _, _)
\* Lookup of the nibble path below the node with hash h; a node missing from
\* the store is an error.
GetAt(db, h, path) ==
    IF h \notin DOMAIN db THEN GetErr
    ELSE LET n == db[h] IN
         CASE n.kind = "leaf" ->
                IF n.path = path THEN GetSome(n.value) ELSE GetNone
           [] n.kind = "ext" ->
                IF Len(n.path) <= Len(path) /\ Take(path, Len(n.path)) = n.path
                THEN GetAt(db, n.children[1], Drop(path, Len(n.path)))
                ELSE GetNone
           [] n.kind = "branch" ->
                IF path = <<>>
                THEN (IF n.value = <<>> THEN GetNone ELSE GetSome(n.value))
                ELSE IF path[1] \in DOMAIN n.children
                     THEN GetAt(db, n.children[path[1]], Tail(path))
                     ELSE GetNone
           [] OTHER -> GetNone

\* trie::get(root, db, key)
TrieGet(root, db, key) ==
    IF root = EMPTY_TRIE_HASH THEN GetNone ELSE GetAt(db, root, ToNibbles(key))

\* The result of inserting below one node: the node that takes its place,
\* the nodes created and the hashes of the nodes of the old spine.
Ins(node, adds, spine) == [err |-> FALSE, node |-> node, adds |-> adds, spine |-> spine]

InsErr == [err |-> TRUE, node |-> EmptyNode, adds |-> {}, spine |-> {}]

Single(node, h) == Ins(node, {node}, {h})

Grow(r, node, h) == Ins(node, r.adds \cup {node}, r.spine \cup {h})

\* An entry of a branch under construction: the path remainder below the
\* branch and either a value or an existing child.
LeafEntry(rest, val) == [rest |-> rest, isval |-> TRUE, val |-> val, child |-> EMPTY_TRIE_HASH]

ChildEntry(rest, child) == [rest |-> rest, isval |-> FALSE, val |-> <<>>, child |-> child]

Below(entries) == {e \in entries : e.rest # <<>>}

HereValue(entries) ==
    IF \E e \in entries : e.rest = <<>>
    THEN (CHOOSE e \in entries : e.rest = <<>>).val
    ELSE <<>>

\* The node an entry becomes below the branch (none when an existing child
\* hangs directly below it).
IsNewSub(e) == e.isval \/ Tail(e.rest) # <<>>

SubNode(e) == IF e.isval THEN Leaf(Tail(e.rest), e.val) ELSE Extension(Tail(e.rest), e.child)

SubHash(e) == IF IsNewSub(e) THEN Hash(SubNode(e)) ELSE e.child

BranchOf(entries) ==
    Branch([x \in {e.rest[1] : e \in Below(entries)} |->
               SubHash(CHOOSE e \in Below(entries) : e.rest[1] = x)],
           HereValue(entries))

NewSubs(entries) == {SubNode(e) : e \in {e \in Below(entries) : IsNewSub(e)}}

SplitTop(prefix, b, new, h) ==
    IF prefix # <<>>
    THEN Ins(Extension(prefix, Hash(b)), new \cup {b, Extension(prefix, Hash(b))}, {h})
    ELSE Ins(b, new \cup {b}, {h})

\* The node that replaces a leaf or extension whose path diverges from the
\* inserted path after the common prefix.
Split(prefix, entries, h) == SplitTop(prefix, BranchOf(entries), NewSubs(entries), h)

InsertLeaf(h, n, path, value, c) ==
    IF n.path = path
    THEN Single(Leaf(path, value), h)
    ELSE Split(Take(path, c),
               {LeafEntry(Drop(n.path, c), n.value), LeafEntry(Drop(path, c), value)}, h)

WrapExt(r, n, h) ==
    IF r.err THEN InsErr ELSE Grow(r, Extension(n.path, Hash(r.node)), h)

WrapBranch(r, n, x, h) ==
    IF r.err THEN InsErr
    ELSE Grow(r, Branch([n.children EXCEPT ![x] = Hash(r.node)], n.value), h)

NewChild(n, x, l, h) ==
    Ins(Branch([y \in (DOMAIN n.children) \cup {x} |->
                   IF y = x THEN Hash(l) ELSE n.children[y]], n.value),
        {l, Branch([y \in (DOMAIN n.children) \cup {x} |->
                   IF y = x THEN Hash(l) ELSE n.children[y]], n.value)},
        {h})

RECURSIVE InsertAt(_, _, _, _)
RECURSIVE InsertInto(_, _, _, _, _, _)
\* Insert below the node with hash h; a node missing from the store is an
\* error.
InsertAt(db, h, path, value) ==
    IF h \notin DOMAIN db THEN InsErr
    ELSE InsertInto(db, h, db[h], path, value, CommonPrefixLen(db[h].path, path))

InsertInto(db, h, n, path, value, c) ==
    CASE n.kind = "leaf" -> InsertLeaf(h, n, path, value, c)
      [] n.kind = "ext" ->
           IF c = Len(n.path)
           THEN WrapExt(InsertAt(db, n.children[1], Drop(path, c), value), n, h)
           ELSE Split(Take(path, c),
                      {ChildEntry(Drop(n.path, c), n.children[1]),
                       LeafEntry(Drop(path, c), value)}, h)
      [] n.kind = "branch" ->
           IF path = <<>> THEN Single(Branch(n.children, value), h)
           ELSE IF path[1] \in DOMAIN n.children
           THEN WrapBranch(InsertAt(db, n.children[path[1]], Tail(path), value),
                           n, path[1], h)
           ELSE NewChild(n, path[1], Leaf(Tail(path), value), h)
      [] OTHER -> InsErr

RECURSIVE Reachable(_, _)
\* The hashes referenced transitively from h (h included); a node missing
\* from the store is listed and not followed.
Reachable(db, h) ==
    IF h = EMPTY_TRIE_HASH THEN {}
    ELSE IF h \notin DOMAIN db THEN {h}
    ELSE {h} \cup UNION {Reachable(db, db[h].children[x]) : x \in DOMAIN db[h].children}

\* A change set: nodes to add (hash -> payload) and hashes to remove.
EmptyChange == [adds |-> <<>>, removes |-> {}]

AddsOf(nodes) == [k \in {Hash(n) : n \in nodes} |-> k.h]

InsertOk(newroot, adds, removes) ==
    [err |-> FALSE, root |-> newroot, change |-> [adds |-> adds, removes |-> removes]]

\* Nodes the update leaves unchanged are not re-emitted; the nodes of the old
\* spine that the new root no longer references are removed.
Finish2(db, r, adds) ==
    InsertOk(Hash(r.node), adds, r.spine \ Reachable(Override(db, adds), Hash(r.node)))

Finish(db, oldroot, r) ==
    IF r.err THEN [err |-> TRUE, root |-> oldroot, change |-> EmptyChange]
    ELSE Finish2(db, r, AddsOf({n \in r.adds : Hash(n) \notin r.spine}))

\* trie::insert(root, db, key, value): the new root and the change set, or
\* an error when a node of the path is missing from the store.
TrieInsert(r, db, key, value) ==
    IF r = EMPTY_TRIE_HASH
    THEN InsertOk(Hash(Leaf(ToNibbles(key), value)),
                  AddsOf({Leaf(ToNibbles(key), value)}), {})
    ELSE Finish(db, r, InsertAt(db, r, ToNibbles(key), value))

\* trie::insert_empty(key, value)
TrieInsertEmpty(key, value) == TrieInsert(EMPTY_TRIE_HASH, <<>>, key, value)

\* The result of get(r, key) for each of the given keys.
Committed(r, db, keys) == [k \in keys |-> TrieGet(r, db, k)]

\* ------------------------------------------- transfer executor (main.rs)
VARIABLES
    state,            \* the caller's StateTrie.state: hash -> node payload
    parent_root,      \* state_root of the parent block (the oracle's answer)
    height,           \* number of blocks executed on top of genesis
    pc,               \* position inside execute_txs
    trie_db,          \* the store execute_txs was given, as it was at the call
    prev_state_root,  \* parameter of execute_txs
    curr_root,        \* working root
    post_trie,        \* working node store
    tx,               \* transaction being applied
    done,             \* transactions of the block already applied
    sender_bal,       \* local sender_bal (after the subtraction)
    receiver_bal,     \* local receiver_bal (after the addition)
    root,             \* local `root` between the two inserts
    last_change,      \* change set of the last trie insert
    writes,           \* (key, value) pairs inserted so far in this block
    reads,            \* results of the balance reads of this block
    tx_root,          \* working root when the current transaction started
    parent_hash,      \* block.parent_hash of the incoming block of execute_block
    blocks            \* MockBlockOracle.blocks: block hash -> block

txvars == <<state, parent_root, height, pc, trie_db, prev_state_root, curr_root,
            post_trie, tx, done, sender_bal, receiver_bal, root, last_change,
            writes, reads, tx_root, parent_hash, blocks>>

\* State of the VM host (vm.rs) and of execute of lib.rs.
VARIABLES
    mode,         \* "test": the harness of vm.rs (TestExt); "block": execute of lib.rs
    storage,      \* TestExtInner.storage, shared by the clones of the TestExt
    cs,           \* the ContractState of the current invocation
    ext_kind,     \* which implementation of Ext the VM state holds
    vm_pc,        \* position inside vm::execute
    wasm,         \* argument wasm of vm::execute
    calldata,     \* argument calldata of vm::execute
    memory_slot,  \* VmStateInner.memory: "None" or "Some"
    guest_mem,    \* the linear memory: address -> non-zero byte
    g_calls,      \* host calls made by the guest in this invocation
    vm_result,    \* what vm::execute returned: "Ok", "Err" or "none"
    last_call,    \* the last host call of the invocation and its outcome
    expected,     \* <<address, key>> -> the value last given to set_storage
    n_inv,        \* invocations started in this run
    post_state,   \* GlobalState.state of lib.rs
    block_root,   \* block.state_root of lib.rs
    ltx,          \* the transaction of lib.rs being executed
    invoked,      \* the (wasm, calldata) pairs the test harness has run so far
    sdk_calls     \* host calls made so far by contracts written against the SDK

vmvars == <<mode, storage, cs, ext_kind, vm_pc, wasm, calldata, memory_slot,
            guest_mem, g_calls, vm_result, last_call, expected, n_inv, post_state,
            block_root, ltx, invoked, sdk_calls>>

vars == <<txvars, vmvars>>

\* Account keys used by the blocks: 1.into(), 2.into() and 42.into().
AccountIds == {1, 2, 42}

Accounts == {H256From(n) : n \in AccountIds}

\* Transfer amounts used by the blocks.
Amounts == {0, 20, 50, 101}

Txs == [source : Accounts, dest : Accounts, amount : Amounts]

NoTx == [source |-> H256From(0), dest |-> H256From(0), amount |-> 0]

RemoveAll(ext, removes) ==
    IF removes \subseteq DOMAIN ext
    THEN [panic |-> FALSE, map |-> Restrict(ext, (DOMAIN ext) \ removes)]
    ELSE [panic |-> TRUE, map |-> ext]

\* A store update that drops the adds of a change set.
apply_changes_NoAdds(map, changes) == RemoveAll(map, changes.removes)

\* apply_changes(map, changes): map.state.extend(changes.adds), then every
\* hash of removes is removed; removing an absent hash panics.
apply_changes(map, changes) == RemoveAll(Override(map, changes.adds), changes.removes)

\* The outcome of an insert followed by apply_changes.
Applied(ins, app) ==
    [panic |-> ins.err \/ app.panic, root |-> ins.root, map |-> app.map,
     change |-> ins.change]

\* An executor that applies every change set a second time.
InsertAndApply_Twice(db, ins) ==
    Applied(ins, apply_changes(apply_changes(db, ins.change).map, ins.change))

InsertAndApply(db, ins) == Applied(ins, apply_changes(db, ins.change))

\* create_account(root, trie_db, account, bal): the new root and store.
create_account(r, db, account, bal) ==
    InsertAndApply(db, TrieInsert(r, db, account, RlpEncode(bal)))

\* create_initial_state(): account 1 with balance 100 in an empty trie.
create_initial_state ==
    InsertAndApply(<<>>, TrieInsertEmpty(H256From(1), RlpEncode(GenesisBalance)))

\* Execution in place, on the caller's own store.
CallerStore_InPlace(callers, working) == working

\* let mut post_trie = trie_db.clone(): the caller's store is a different
\* object from the working store and keeps its contents.
CallerStore(callers, working) == callers

\* The root the balance reads of a transaction are made against.
ReadRoot == prev_state_root

\* trie::get(prev_state_root, &&post_trie.state, &sender)
SenderRead == TrieGet(ReadRoot, post_trie, tx.source)

\* trie::get(prev_state_root, &&post_trie.state, &receiver)
ReceiverRead == TrieGet(ReadRoot, post_trie, tx.dest)

\* A sender that is not debited.
NewSenderBal_NoDebit(bal, amount) == bal

\* sender_bal = sender_bal - amount
NewSenderBal(bal, amount) == bal - amount

\* rlp::decode::<U256>(bal) + amount
NewReceiverBal(bal, amount) == bal + amount

\* The root the receiver's balance is inserted on.
ReceiverInsertRoot == curr_root

\* An executor that inserts the sender on the working root as well.
SenderInsertRoot_Working == curr_root

\* The root the sender's balance is inserted on.
SenderInsertRoot == root

\* A working root that does not advance past the transaction.
NextWorkingRoot_Keep(r) == curr_root

\* curr_root = root, after the sender's insert.
NextWorkingRoot(r) == r

ReadRecord(key, g) == [tx |-> Len(done) + 1, key |-> key, got |-> g]

\* ---- blocks and the oracle
\* A block without its txns (the transactions of the block being executed
\* are drawn one at a time and collected in `done`).
Header(ph, sr) == [parent_hash |-> ph, state_root |-> sr]

\* Block::default()
DefaultBlock == Header(ZeroHash, ZeroHash)

\* Block::hash: the hash of the encoded block, collision free.  The oracle of
\* the model keeps headers, so the hash names a block by its header.
BlockHash(b) == [h |-> b]

\* MockBlockOracle::insert_block
insert_block(m, b) == Override(m, [k \in {BlockHash(b)} |-> b])

\* get_block_by_hash: oracle.get_block_by_hash(&hash).expect(...).clone()
get_block_by_hash(m, hash) ==
    IF hash \in DOMAIN m THEN [panic |-> FALSE, block |-> m[hash]]
    ELSE [panic |-> TRUE, block |-> DefaultBlock]

\* parent_hash of an incoming block: the hash of a block the oracle holds,
\* or the hash of a block it does not hold.
ParentHashes == (DOMAIN blocks) \cup {BlockHash(DefaultBlock)}

\* state_root of an incoming block: Default::default() as in main, or
\* anything else.
IncomingRoots == {ZeroHash, EMPTY_TRIE_HASH}

\* An executor that starts from the incoming block's own state_root.
StartRoot_Incoming(incoming, prev_block) == incoming.state_root

\* let prev_state_root = prev_block.state_root
StartRoot(incoming, prev_block) == prev_block.state_root

\* Block { parent_hash: block.parent_hash, state_root: new_root, txns: block.txns }
ProducedBlock(ph, new_root, txns) ==
    [parent_hash |-> ph, state_root |-> new_root, txns |-> txns]

\* The locals of execute_txs before it is called and after it has returned.
NoFrame ==
    /\ trie_db' = <<>>
    /\ prev_state_root' = ZeroHash
    /\ curr_root' = ZeroHash
    /\ post_trie' = <<>>
    /\ tx' = NoTx
    /\ done' = <<>>
    /\ sender_bal' = 0
    /\ receiver_bal' = 0
    /\ root' = ZeroHash
    /\ last_change' = EmptyChange
    /\ writes' = <<>>
    /\ reads' = <<>>
    /\ tx_root' = ZeroHash

\* execute_txs(state, prev_state_root, block.txns.clone()) is entered:
\* curr_root = prev_state_root.clone(); post_trie = trie_db.clone().
Entered(r) ==
    /\ trie_db' = state
    /\ prev_state_root' = r
    /\ curr_root' = r
    /\ post_trie' = state
    /\ done' = <<>>
    /\ writes' = <<>>
    /\ reads' = <<>>
    /\ last_change' = EmptyChange
    /\ pc' = "loop"
    /\ UNCHANGED <<tx, sender_bal, receiver_bal, root, tx_root>>

ParentGot(incoming, p) ==
    /\ parent_hash' = incoming.parent_hash
    /\ IF p.panic
       THEN pc' = "no_parent" /\ NoFrame
       ELSE Entered(StartRoot(incoming, p.block))

\* execute_block(state, block, oracle): the parent is looked up by
\* block.parent_hash (fatal when the oracle does not hold it) and execute_txs
\* is called with the parent's state_root.  block.state_root is not read
\* again after this step.
BeginBlock ==
    /\ pc = "idle"
    /\ height < MaxBlocks
    /\ \E ph \in ParentHashes, sr \in IncomingRoots :
          ParentGot(Header(ph, sr), get_block_by_hash(blocks, ph))
    /\ UNCHANGED <<state, parent_root, height, blocks>>
    /\ UNCHANGED vmvars

\* for tx in txs: the next transaction of the block.
NextTx ==
    /\ pc = "loop"
    /\ Len(done) < MaxTxs
    /\ \E t \in Txs : tx' = t
    /\ pc' = "read_sender"
    /\ tx_root' = curr_root
    /\ UNCHANGED <<state, parent_root, height, trie_db, prev_state_root, curr_root,
                   post_trie, done, sender_bal, receiver_bal, root, last_change,
                   writes, reads>>
    /\ UNCHANGED <<parent_hash, blocks>>
    /\ UNCHANGED vmvars

SenderGot(g) ==
    /\ reads' = Append(reads, ReadRecord(tx.source, g))
    /\ IF g.tag # "Some" \/ tx.amount > RlpDecode(g.val)
       THEN pc' = "panicked" /\ UNCHANGED sender_bal
       ELSE /\ sender_bal' = NewSenderBal(RlpDecode(g.val), tx.amount)
            /\ pc' = "read_receiver"

\* Lines 135-145: read the sender's balance, check it, subtract.
ReadSender ==
    /\ pc = "read_sender"
    /\ SenderGot(SenderRead)
    /\ UNCHANGED <<state, parent_root, height, trie_db, prev_state_root, curr_root,
                   post_trie, tx, done, receiver_bal, root, last_change, writes,
                   tx_root>>
    /\ UNCHANGED <<parent_hash, blocks>>
    /\ UNCHANGED vmvars

\* A receiver created with balance 0 and never credited.
LazyReceiverBal_Zero(amount) == 0

\* Ok(None) => { ...; amount }: the balance of a receiver created lazily.
LazyReceiverBal(amount) == amount

\* Ok(None): create_account(curr_root, &mut post_trie, receiver, amount).
Created(c) ==
    /\ receiver_bal' = LazyReceiverBal(tx.amount)
    /\ post_trie' = c.map
    /\ last_change' = c.change
    /\ writes' = Append(writes, <<tx.dest, RlpEncode(tx.amount)>>)
    /\ IF c.panic
       THEN pc' = "panicked" /\ UNCHANGED curr_root
       ELSE pc' = "insert_receiver" /\ curr_root' = c.root

ReceiverGot(g) ==
    /\ reads' = Append(reads, ReadRecord(tx.dest, g))
    /\ CASE g.tag = "Some" ->
              /\ receiver_bal' = NewReceiverBal(RlpDecode(g.val), tx.amount)
              /\ pc' = "insert_receiver"
              /\ UNCHANGED <<curr_root, post_trie, last_change, writes>>
         [] g.tag = "None" ->
              Created(create_account(curr_root, post_trie, tx.dest, tx.amount))
         [] OTHER ->
              /\ pc' = "panicked"
              /\ UNCHANGED <<receiver_bal, curr_root, post_trie, last_change, writes>>

\* Lines 148-159: read the receiver's balance; an absent receiver is created
\* on the working root.
ReadReceiver ==
    /\ pc = "read_receiver"
    /\ ReceiverGot(ReceiverRead)
    /\ state' = CallerStore(state, post_trie')
    /\ UNCHANGED <<parent_root, height, trie_db, prev_state_root, tx, done,
                   sender_bal, root, tx_root>>
    /\ UNCHANGED <<parent_hash, blocks>>
    /\ UNCHANGED vmvars

ReceiverInserted(a) ==
    /\ writes' = Append(writes, <<tx.dest, RlpEncode(receiver_bal)>>)
    /\ root' = a.root
    /\ post_trie' = a.map
    /\ last_change' = a.change
    /\ pc' = IF a.panic THEN "panicked" ELSE "insert_sender"

\* Lines 162-169: insert the receiver's balance on curr_root, apply changes_a.
InsertReceiver ==
    /\ pc = "insert_receiver"
    /\ ReceiverInserted(InsertAndApply(post_trie,
          TrieInsert(ReceiverInsertRoot, post_trie, tx.dest, RlpEncode(receiver_bal))))
    /\ state' = CallerStore(state, post_trie')
    /\ UNCHANGED <<parent_root, height, trie_db, prev_state_root, curr_root, tx, done,
                   sender_bal, receiver_bal, reads, tx_root>>
    /\ UNCHANGED <<parent_hash, blocks>>
    /\ UNCHANGED vmvars

SenderInserted(a) ==
    /\ writes' = Append(writes, <<tx.source, RlpEncode(sender_bal)>>)
    /\ root' = a.root
    /\ post_trie' = a.map
    /\ last_change' = a.change
    /\ IF a.panic
       THEN pc' = "panicked" /\ UNCHANGED <<curr_root, done>>
       ELSE pc' = "loop" /\ curr_root' = NextWorkingRoot(a.root) /\ done' = Append(done, tx)

\* Lines 171-176: insert the sender's balance on `root`, apply changes_b,
\* curr_root = root.
InsertSender ==
    /\ pc = "insert_sender"
    /\ SenderInserted(InsertAndApply(post_trie,
          TrieInsert(SenderInsertRoot, post_trie, tx.source, RlpEncode(sender_bal))))
    /\ state' = CallerStore(state, post_trie')
    /\ UNCHANGED <<parent_root, height, trie_db, prev_state_root, tx,
                   sender_bal, receiver_bal, reads, tx_root>>
    /\ UNCHANGED <<parent_hash, blocks>>
    /\ UNCHANGED vmvars

\* Line 179: (curr_root, post_trie) is returned.
ReturnBlock ==
    /\ pc = "loop"
    /\ pc' = "returned"
    /\ UNCHANGED <<state, parent_root, height, trie_db, prev_state_root, curr_root,
                   post_trie, tx, done, sender_bal, receiver_bal, root, last_change,
                   writes, reads, tx_root>>
    /\ UNCHANGED <<parent_hash, blocks>>
    /\ UNCHANGED vmvars

\* The block an oracle is given for a state with the root r, built as
\* create_initial_state builds the genesis block.
RootBlock(r) == Header(BlockHash(DefaultBlock), r)

Adopted(b) ==
    /\ parent_root' = b.state_root
    /\ blocks' = insert_block(<<>>, RootBlock(b.state_root))

\* execute_block returns (Block {..}, new_trie).  The caller goes on with the
\* returned store and with a new oracle (execute_block consumed the old one)
\* that holds a block with the produced state_root, as main builds one that
\* holds the genesis block.
AdoptBlock ==
    /\ pc = "returned"
    /\ state' = post_trie
    /\ Adopted(ProducedBlock(parent_hash, curr_root, done))
    /\ height' = height + 1
    /\ pc' = "idle"
    /\ NoFrame
    /\ UNCHANGED parent_hash
    /\ UNCHANGED vmvars

\* ------------------------------------------------- VM host (vm.rs, lib.rs)
Zero32 == Bytes32Of(0)

\* Size of the linear memory in bytes.
MemBytes == InitialPages * PageSize

\* wasm binaries: the magic "\0asm" and one byte naming the contract.
WasmMagic == <<0, 97, 115, 109>>

\* contracts/flipper
FlipperWasm == WasmMagic \o <<1>>

\* A contract written against arbitrary-sdk, making any host calls.
SdkWasm == WasmMagic \o <<2>>

\* A custom section: a module followed by one is a module that runs the same.
CustomSection == <<0>>

\* The SDK contract with a custom section appended.
SdkCustom == SdkWasm \o CustomSection

\* Bytes that are no wasm module.
JunkWasm == <<7>>

\* Module::new(&engine, wasm) succeeds.
ValidWasm(b) ==
    /\ Len(b) >= 5
    /\ Take(b, 4) = WasmMagic
    /\ \A i \in 6..Len(b) : b[i] = 0

\* The module without its custom sections.
CodeOf(b) == Take(b, 5)

\* Storage keys and values the SDK contract uses.
StorageKeys == {Bytes32Of(1), Bytes32Of(2)}

StorageValues == {[i \in 1..HashLen |-> IF i = 1 THEN 1 ELSE 0], Bytes32Of(2)}

\* Where the guest keeps key, value and result buffers in linear memory.
GuestPtr == [key |-> 1024, value |-> 1056, out |-> 1088]

\* b"ContractCode"
ContractCodePrefix == <<67, 111, 110, 116, 114, 97, 99, 116, 67, 111, 100, 101>>

\* Sha3_256 over the hasher's input.  The digest is a black box assumed
\* collision free: the length and the input, padded to 32 bytes (every
\* input of the model is at most 31 bytes long).
Sha3_256(input) == [i \in 1..HashLen |->
                      IF i = 1 THEN Len(input)
                      ELSE IF i - 1 <= Len(input) THEN input[i - 1] ELSE 0]

\* A key with the prefix and the key swapped.
keyhash_with_prefix_Swapped(prefix, key) == key \o prefix

\* keyhash_with_prefix(prefix, key): prefix followed by key.
keyhash_with_prefix(prefix, key) == prefix \o key

\* ---- linear memory
\* memory.read(offset, len): the bytes, or an error out of bounds.
MemRead(mem, offset, len) ==
    IF offset + len > MemBytes
    THEN [err |-> TRUE, val |-> <<>>]
    ELSE [err |-> FALSE,
          val |-> [i \in 1..len |-> IF (offset + i - 1) \in DOMAIN mem
                                    THEN mem[offset + i - 1] ELSE 0]]

\* memory.write(offset, bytes): the new memory, or an error out of bounds.
MemWrite(mem, offset, bytes) ==
    IF offset + Len(bytes) > MemBytes
    THEN [err |-> TRUE, mem |-> mem]
    ELSE [err |-> FALSE,
          mem |-> [a \in {x \in (DOMAIN mem) \cup (offset..(offset + Len(bytes) - 1)) :
                            IF x >= offset /\ x < offset + Len(bytes)
                            THEN bytes[x - offset + 1] # 0
                            ELSE mem[x] # 0} |->
                     IF a >= offset /\ a < offset + Len(bytes)
                     THEN bytes[a - offset + 1] ELSE mem[a]]]

\* A store instruction of the guest (always in bounds here).
GuestStore(mem, offset, bytes) == MemWrite(mem, offset, bytes).mem

ReadResult(slot, r) ==
    [panic |-> slot = "None" \/ r.err, val |-> IF r.err THEN Zero32 ELSE r.val]

\* VmState::read_bytes32: panics when the memory slot is empty or out of bounds.
read_bytes32(mem, slot, offset) == ReadResult(slot, MemRead(mem, offset, HashLen))

WriteResult(slot, w) == [panic |-> slot = "None" \/ w.err, mem |-> w.mem]

\* VmState::write_bytes32: panics when the memory slot is empty or out of bounds.
write_bytes32(mem, slot, offset, bytes) == WriteResult(slot, MemWrite(mem, offset, bytes))

\* ---- the storage adapters
\* TestExt::get: storage.get(key).cloned().unwrap_or_default()
TestExt_get(st, key) ==
    [panic |-> FALSE, val |-> IF key \in DOMAIN st THEN st[key] ELSE Zero32]

\* A set that keeps the value already stored.
TestExt_set_KeepOld(st, key, value) ==
    IF key \in DOMAIN st THEN st ELSE Override(st, [k \in {key} |-> value])

\* TestExt::set: storage.insert(*key, *value)
TestExt_set(st, key, value) == Override(st, [k \in {key} |-> value])

\* ContractState::new(address)
ContractState_new(address) ==
    [address |-> address, database |-> <<>>, root |-> EMPTY_TRIE_HASH]

NoContractState == ContractState_new(<<>>)

\* The value of trie::get unwrapped twice and copied into [0; 32].
CsGot(g) ==
    IF g.tag = "Some" /\ Len(g.val) = HashLen
    THEN [panic |-> FALSE, val |-> g.val]
    ELSE [panic |-> TRUE, val |-> Zero32]

\* ContractState::get
ContractState_get(c, key) ==
    CsGot(TrieGet(c.root, c.database, keyhash_with_prefix(c.address, key)))

\* apply_changes of lib.rs: extend with the adds, then remove the removes.
lib_apply_changes(st, changes) == RemoveAll(Override(st, changes.adds), changes.removes)

CsApplied(c, ins, app) ==
    [panic |-> ins.err \/ app.panic,
     cs |-> [address |-> c.address, database |-> app.map, root |-> ins.root]]

CsInserted(c, ins) == CsApplied(c, ins, lib_apply_changes(c.database, ins.change))

\* ContractState::set
ContractState_set(c, key, value) ==
    CsInserted(c, TrieInsert(c.root, c.database, keyhash_with_prefix(c.address, key), value))

\* state.ext().get(&key)
ExtGet(key) ==
    IF ext_kind = "TestExt" THEN TestExt_get(storage, key) ELSE ContractState_get(cs, key)

\* The address the adapter in use is bound to (none for the TestExt).
ExtAddress == IF ext_kind = "TestExt" THEN <<>> ELSE cs.address

\* What was last given to set_storage for this key of this address.
\* ---- the RefCell of VmState: its borrow flag is 0 when free, the number of
\* live Refs when shared, and -1 while a RefMut is live.
FreeCell == [conflict |-> FALSE, flag |-> 0]

Conflict(c) == [conflict |-> TRUE, flag |-> c.flag]

\* RefCell::borrow, RefCell::borrow_mut and the drop of a Ref or a RefMut.
CellStep(c, e) ==
    IF c.conflict THEN c
    ELSE CASE e = "borrow" ->
                 IF c.flag < 0 THEN Conflict(c) ELSE [conflict |-> FALSE, flag |-> c.flag + 1]
           [] e = "borrow_mut" ->
                 IF c.flag # 0 THEN Conflict(c) ELSE [conflict |-> FALSE, flag |-> -1]
           [] e = "drop_ref" -> [conflict |-> FALSE, flag |-> c.flag - 1]
           [] OTHER -> [conflict |-> FALSE, flag |-> c.flag + 1]

RECURSIVE RunBorrows(_, _)
RunBorrows(events, c) ==
    IF events = <<>> THEN c ELSE RunBorrows(Tail(events), CellStep(c, Head(events)))

\* A get_storage whose ext() Ref is still live when write_bytes32 borrows.
HostBorrows_HeldExt(op) ==
    CASE op = "get" -> <<"borrow", "drop_ref", "borrow", "borrow_mut", "drop_mut", "drop_ref">>
      [] op = "set" -> <<"borrow", "drop_ref", "borrow", "drop_ref", "borrow_mut", "drop_mut">>
      [] OTHER -> <<"borrow_mut", "drop_mut">>

\* The borrows a host function takes and drops, in order:
\* get_storage: read_bytes32 (borrow), ext() for the statement of the get
\* (borrow), write_bytes32 (borrow_mut); set_storage: read_bytes32 twice,
\* ext_mut() for the statement of the set (borrow_mut); print: read (borrow_mut).
HostBorrows(op) ==
    CASE op = "get" -> <<"borrow", "drop_ref", "borrow", "drop_ref", "borrow_mut", "drop_mut">>
      [] op = "set" -> <<"borrow", "drop_ref", "borrow", "drop_ref", "borrow_mut", "drop_mut">>
      [] OTHER -> <<"borrow_mut", "drop_mut">>

\* The cell after a host call made on the cell the last one left.
CellAfter(op) == RunBorrows(HostBorrows(op), last_call.cell)

Prior(key) ==
    IF <<ExtAddress, key>> \in DOMAIN expected THEN expected[<<ExtAddress, key>>]
    ELSE [val |-> <<>>, inv |-> 0]

NoCall == [op |-> "none", address |-> <<>>, key |-> <<>>, trie_key |-> <<>>,
           val |-> <<>>, panic |-> FALSE, prior |-> [val |-> <<>>, inv |-> 0],
           out_ptr |-> 0, inv |-> 0, cell |-> FreeCell]

CallRecord(op, key, val, panic, out_ptr) ==
    [op |-> op, address |-> ExtAddress, key |-> key,
     trie_key |-> IF ext_kind = "TestExt" THEN <<>>
                  ELSE keyhash_with_prefix(cs.address, key),
     val |-> val, panic |-> panic \/ CellAfter(op).conflict, prior |-> Prior(key),
     out_ptr |-> out_ptr, inv |-> n_inv, cell |-> CellAfter(op)]

\* ---- the host functions of populate_linker
GetStorageDone(key, v, w, out_ptr) ==
    /\ guest_mem' = w.mem
    /\ last_call' = CallRecord("get", key, v.val, v.panic \/ w.panic, out_ptr)
    /\ vm_pc' = IF last_call'.panic THEN "panicked" ELSE "guest"

GetStorageKey(mem, k, v, out_ptr) ==
    IF k.panic
    THEN /\ guest_mem' = mem
         /\ last_call' = CallRecord("get", k.val, Zero32, TRUE, out_ptr)
         /\ vm_pc' = "panicked"
    ELSE GetStorageDone(k.val, v,
            IF v.panic THEN [panic |-> FALSE, mem |-> mem]
            ELSE write_bytes32(mem, memory_slot, out_ptr, v.val), out_ptr)

GetStorageRead(mem, k, out_ptr) == GetStorageKey(mem, k, ExtGet(k.val), out_ptr)

\* env.get_storage(key_ptr, out_ptr) on the memory the guest left:
\* read_bytes32(key_ptr), ext().get(&key), write_bytes32(out_ptr, &value).
env_get_storage(mem, key_ptr, out_ptr) ==
    /\ GetStorageRead(mem, read_bytes32(mem, memory_slot, key_ptr), out_ptr)
    /\ g_calls' = g_calls + 1
    /\ UNCHANGED <<mode, storage, cs, ext_kind, wasm, calldata, memory_slot, vm_result,
                   expected, n_inv, post_state, block_root, ltx, invoked>>

SetStorageExt(key, value, set) ==
    /\ cs' = set.cs
    /\ last_call' = CallRecord("set", key, value, set.panic, 0)
    /\ expected' = Override(expected,
                       [p \in {<<ExtAddress, key>>} |-> [val |-> value, inv |-> n_inv]])
    /\ vm_pc' = IF last_call'.panic THEN "panicked" ELSE "guest"

SetStorageRead(k, v) ==
    IF k.panic \/ v.panic
    THEN /\ last_call' = CallRecord("set", k.val, v.val, TRUE, 0)
         /\ vm_pc' = "panicked"
         /\ UNCHANGED <<storage, cs, expected>>
    ELSE IF ext_kind = "TestExt"
    THEN /\ storage' = TestExt_set(storage, k.val, v.val)
         /\ SetStorageExt(k.val, v.val, [panic |-> FALSE, cs |-> cs])
    ELSE /\ storage' = storage
         /\ SetStorageExt(k.val, v.val, ContractState_set(cs, k.val, v.val))

\* env.set_storage(key_ptr, value_ptr) on the memory the guest left:
\* read_bytes32(key_ptr), read_bytes32(value_ptr), ext_mut().set(&key, &value).
env_set_storage(mem, key_ptr, value_ptr) ==
    /\ SetStorageRead(read_bytes32(mem, memory_slot, key_ptr),
                      read_bytes32(mem, memory_slot, value_ptr))
    /\ guest_mem' = mem
    /\ g_calls' = g_calls + 1
    /\ UNCHANGED <<mode, ext_kind, wasm, calldata, memory_slot, vm_result, n_inv,
                   post_state, block_root, ltx, invoked>>

\* VmState::read(offset, len): panics when the memory slot is empty or the
\* range is out of bounds.
VmState_read(mem, slot, offset, len) == ReadResult(slot, MemRead(mem, offset, len))

PrintDone(r, ptr) ==
    /\ last_call' = CallRecord("print", <<>>, r.val, r.panic, ptr)
    /\ vm_pc' = IF last_call'.panic THEN "panicked" ELSE "guest"

\* env.print(ptr, len): state.read(ptr, len), then the line is printed.
env_print(mem, ptr, len) ==
    /\ PrintDone(VmState_read(mem, memory_slot, ptr, len), ptr)
    /\ guest_mem' = mem
    /\ g_calls' = g_calls + 1
    /\ UNCHANGED <<mode, storage, cs, ext_kind, wasm, calldata, memory_slot, vm_result,
                   expected, n_inv, post_state, block_root, ltx, invoked>>

\* ---- vm::execute
\* The call of vm::execute(ext, wasm, calldata).
VmStart(kind, c, w, cd) ==
    /\ ext_kind' = kind
    /\ cs' = c
    /\ wasm' = w
    /\ calldata' = cd
    /\ vm_pc' = "module_new"
    /\ memory_slot' = "None"
    /\ guest_mem' = <<>>
    /\ g_calls' = 0
    /\ vm_result' = "none"
    /\ n_inv' = n_inv + 1

VmFrame == <<mode, storage, cs, ext_kind, wasm, calldata, g_calls, last_call, expected,
             n_inv, post_state, block_root, ltx, invoked, sdk_calls>>

\* Module::new(&engine, wasm)?
ModuleNew ==
    /\ vm_pc = "module_new"
    /\ IF ValidWasm(wasm)
       THEN vm_pc' = "vmstate_new" /\ UNCHANGED vm_result
       ELSE vm_pc' = "returned" /\ vm_result' = "Err"
    /\ UNCHANGED <<VmFrame, memory_slot, guest_mem>>
    /\ UNCHANGED txvars

\* VmState::new(ext), Store::new, Memory::new(16 pages): the memory slot is
\* still empty.
VmStateNew ==
    /\ vm_pc = "vmstate_new"
    /\ memory_slot' = "None"
    /\ guest_mem' = <<>>
    /\ vm_pc' = "set_memory"
    /\ UNCHANGED <<VmFrame, vm_result>>
    /\ UNCHANGED txvars

\* A deferred_set_memory that leaves the slot as it finds it.
deferred_set_memory_Skip(slot) == slot

\* VmState::deferred_set_memory: self.0.borrow_mut().memory = Some(memory)
deferred_set_memory(slot) == "Some"

\* state.deferred_set_memory(memory.clone())
DeferredSetMemory ==
    /\ vm_pc = "set_memory"
    /\ memory_slot' = deferred_set_memory(memory_slot)
    /\ vm_pc' = "write_calldata"
    /\ UNCHANGED <<VmFrame, vm_result, guest_mem>>
    /\ UNCHANGED txvars

\* The length written most significant byte first.
LenLeBytes_BigEndian(n) ==
    [i \in 1..8 |-> CASE i = 8 -> n % 256
                      [] i = 7 -> (n \div 256) % 256
                      [] i = 6 -> (n \div 65536) % 256
                      [] i = 5 -> (n \div 16777216) % 256
                      [] OTHER -> 0]

\* calldata.len().to_le_bytes(): the 8 little-endian bytes of a usize.
LenLeBytes(n) ==
    [i \in 1..8 |-> CASE i = 1 -> n % 256
                      [] i = 2 -> (n \div 256) % 256
                      [] i = 3 -> (n \div 65536) % 256
                      [] i = 4 -> (n \div 16777216) % 256
                      [] OTHER -> 0]

CalldataWritten(w) ==
    IF w.err
    THEN vm_pc' = "returned" /\ vm_result' = "Err" /\ UNCHANGED guest_mem
    ELSE vm_pc' = "instantiate" /\ guest_mem' = w.mem /\ UNCHANGED vm_result

LenWritten(w) ==
    IF w.err
    THEN vm_pc' = "returned" /\ vm_result' = "Err" /\ UNCHANGED guest_mem
    ELSE CalldataWritten(MemWrite(w.mem, 36, calldata))

\* memory.write(4, len) and memory.write(36, calldata), each with `?`.
WriteCalldata ==
    /\ vm_pc = "write_calldata"
    /\ LenWritten(MemWrite(guest_mem, 4, LenLeBytes(Len(calldata))))
    /\ UNCHANGED <<VmFrame, memory_slot>>
    /\ UNCHANGED txvars

\* populate_linker, instantiate, start, the lookup of "entrypoint" and the
\* call of it: the guest starts running.
Instantiate ==
    /\ vm_pc = "instantiate"
    /\ vm_pc' = "guest"
    /\ UNCHANGED <<VmFrame, memory_slot, guest_mem, vm_result>>
    /\ UNCHANGED txvars

RunsFlipper == vm_pc = "guest" /\ CodeOf(wasm) = FlipperWasm

RunsSdk == vm_pc = "guest" /\ CodeOf(wasm) = SdkWasm /\ sdk_calls < MaxHostCalls

\* flipper: key = [1; 32], result = [0; 32], get_storage(key, result).
FlipperGet ==
    /\ RunsFlipper
    /\ g_calls = 0
    /\ env_get_storage(
          GuestStore(GuestStore(guest_mem, GuestPtr.key, Bytes32Of(1)),
                     GuestPtr.out, Zero32),
          GuestPtr.key, GuestPtr.out)
    /\ UNCHANGED sdk_calls
    /\ UNCHANGED txvars

\* result[0] = 1 if it is 0, else 0.
Flip(result) == [result EXCEPT ![1] = IF result[1] = 0 THEN 1 ELSE 0]

\* flipper: flip result[0], set_storage(key, result).
FlipperSet ==
    /\ RunsFlipper
    /\ g_calls = 1
    /\ env_set_storage(
          GuestStore(guest_mem, GuestPtr.out,
                     Flip(MemRead(guest_mem, GuestPtr.out, HashLen).val)),
          GuestPtr.key, GuestPtr.out)
    /\ UNCHANGED sdk_calls
    /\ UNCHANGED txvars

\* arbitrary_sdk::get_storage(key)
SdkGet ==
    /\ RunsSdk
    /\ \E k \in StorageKeys :
          env_get_storage(
              GuestStore(GuestStore(guest_mem, GuestPtr.key, k), GuestPtr.out, Zero32),
              GuestPtr.key, GuestPtr.out)
    /\ sdk_calls' = sdk_calls + 1
    /\ UNCHANGED txvars

\* arbitrary_sdk::set_storage(key, value)
SdkSet ==
    /\ RunsSdk
    /\ \E k \in StorageKeys, v \in StorageValues :
          env_set_storage(
              GuestStore(GuestStore(guest_mem, GuestPtr.key, k), GuestPtr.value, v),
              GuestPtr.key, GuestPtr.value)
    /\ sdk_calls' = sdk_calls + 1
    /\ UNCHANGED txvars

\* (ptr, len) pairs a guest gives to print: a string inside the memory and a
\* range that runs past its end.
PrintArgs == {[ptr |-> GuestPtr.key, len |-> 4], [ptr |-> MemBytes - 4, len |-> 8]}

\* arbitrary_sdk::print(s), or a direct call of the import.
SdkPrint ==
    /\ RunsSdk
    /\ \E a \in PrintArgs : env_print(guest_mem, a.ptr, a.len)
    /\ sdk_calls' = sdk_calls + 1
    /\ UNCHANGED txvars

\* The entrypoint returns: main.call(...)?; return Ok(()).
GuestReturn ==
    /\ vm_pc = "guest"
    /\ (CodeOf(wasm) = FlipperWasm => g_calls = 2)
    /\ vm_pc' = "returned"
    /\ vm_result' = "Ok"
    /\ UNCHANGED <<VmFrame, memory_slot, guest_mem>>
    /\ UNCHANGED txvars

\* ---- the harness of vm.rs (mod tests)
\* The shortest calldata that does not fit behind offset 36.
LongCalldata == [i \in 1..(MemBytes - 35) |-> 0]

\* Calldata the harness passes; the oversize one is tried on the first call
\* only (that call ends before the guest and the adapter are reached).
Calldatas == {Bytes32Of(1), <<>>} \cup (IF n_inv = 0 THEN {LongCalldata} ELSE {})

Codes == {FlipperWasm, SdkWasm, JunkWasm}

NoLtx == [kind |-> "none", code |-> <<>>, address |-> <<>>, calldata |-> <<>>]

\* execute(Box::new(ext.clone()), wasm, calldata) on the shared TestExt.
TestExecute ==
    /\ mode = "test"
    /\ vm_pc = "idle"
    /\ n_inv < MaxInvocations
    /\ \E w \in Codes, cd \in Calldatas :
          /\ VmStart("TestExt", NoContractState, w, cd)
          /\ ltx' = [kind |-> "test", code |-> w, address |-> <<>>, calldata |-> cd]
          /\ invoked' = invoked \cup {[wasm |-> w, calldata |-> cd]}
    /\ UNCHANGED <<mode, storage, last_call, expected, post_state, block_root, sdk_calls>>
    /\ UNCHANGED txvars

\* vm::execute has returned: its arguments, the Store with the VM state and
\* the adapter in it, and the linear memory are dropped.
VmDropped ==
    /\ cs' = NoContractState
    /\ ext_kind' = "none"
    /\ wasm' = <<>>
    /\ calldata' = <<>>
    /\ memory_slot' = "None"
    /\ guest_mem' = <<>>
    /\ g_calls' = 0
    /\ last_call' = NoCall

\* .unwrap() of the result of execute.
TestUnwrap ==
    /\ mode = "test"
    /\ vm_pc = "returned"
    /\ vm_pc' = IF vm_result = "Ok" THEN "idle" ELSE "panicked"
    /\ VmDropped
    /\ UNCHANGED <<mode, storage, vm_result, expected, n_inv, post_state,
                   block_root, ltx, invoked, sdk_calls>>
    /\ UNCHANGED txvars

\* ---- execute of lib.rs
\* Byte strings in the transactions of a block: code of a Deploy, calldata of
\* a Call.
BlockBlobs == {FlipperWasm, SdkWasm, JunkWasm}

\* The Deploy transactions of a block, as (code, calldata): the last two
\* differ in both parts and have the same code || calldata.
Deploys == {<<FlipperWasm, SdkWasm>>, <<JunkWasm, SdkWasm>>,
            <<SdkWasm, CustomSection \o SdkWasm>>, <<SdkCustom, SdkWasm>>}

\* The Deploy address: Sha3_256 over code then calldata.
DeployAddress(code, cd) == Sha3_256(code \o cd)

CallAddresses == {DeployAddress(c, d) : c \in {FlipperWasm, SdkCustom}, d \in {SdkWasm}}

\* The calldata argument missing from the calls of vm::execute in lib.rs.
MissingCalldata == {<<>>, Bytes32Of(1)}

DeployInserted(a, code, address) ==
    /\ post_state' = a.map
    /\ IF a.panic
       THEN /\ vm_pc' = "panicked"
            /\ n_inv' = n_inv + 1
            /\ UNCHANGED <<cs, ext_kind, wasm, calldata, memory_slot, guest_mem,
                           g_calls, vm_result>>
       ELSE \E cd \in MissingCalldata :
               VmStart("ContractState", ContractState_new(address), code, cd)

LibApplied(ins, app) ==
    [panic |-> ins.err \/ app.panic, root |-> ins.root, map |-> app.map]

LibInsert(st, ins) == LibApplied(ins, lib_apply_changes(st, ins.change))

DeployTx(code, cd) ==
    /\ ltx' = [kind |-> "deploy", code |-> code,
               address |-> DeployAddress(code, cd), calldata |-> cd]
    /\ DeployInserted(
          LibInsert(post_state,
              TrieInsert(block_root, post_state,
                  keyhash_with_prefix(ContractCodePrefix, DeployAddress(code, cd)),
                  code)),
          code, DeployAddress(code, cd))

\* Tx::Deploy: the address, the insert of the code under
\* "ContractCode" || address on block.state_root, apply_changes, and the call
\* vm::execute(contract_state, &code).
Deploy ==
    /\ mode = "block"
    /\ vm_pc = "idle"
    /\ n_inv < MaxInvocations
    /\ \E d \in Deploys : DeployTx(d[1], d[2])
    /\ UNCHANGED <<mode, storage, last_call, expected, block_root, sdk_calls, invoked>>
    /\ UNCHANGED txvars

CallLoaded(g, address, cd) ==
    IF g.tag = "Err"
    THEN /\ vm_pc' = "panicked"
         /\ n_inv' = n_inv + 1
         /\ UNCHANGED <<cs, ext_kind, wasm, calldata, memory_slot, guest_mem,
                        g_calls, vm_result>>
    ELSE \E m \in MissingCalldata :
            VmStart("ContractState", ContractState_new(address), cd, m)

\* Tx::CallAndTransfer: the lookup of "ContractCode" || address under
\* block.state_root (only the Result is unwrapped), a new ContractState and
\* the call vm::execute(ext, calldata).
CallAndTransfer ==
    /\ mode = "block"
    /\ vm_pc = "idle"
    /\ n_inv < MaxInvocations
    /\ \E address \in CallAddresses, cd \in BlockBlobs :
          /\ ltx' = [kind |-> "call", code |-> <<>>, address |-> address,
                     calldata |-> cd]
          /\ CallLoaded(TrieGet(block_root, post_state,
                                keyhash_with_prefix(ContractCodePrefix, address)),
                        address, cd)
    /\ UNCHANGED <<mode, storage, last_call, expected, post_state, block_root, sdk_calls,
                   invoked>>
    /\ UNCHANGED txvars

\* The result of vm::execute: .expect(...) in Deploy, dropped in
\* CallAndTransfer; the adapter is dropped with the VM state.
TxReturn ==
    /\ mode = "block"
    /\ vm_pc = "returned"
    /\ vm_pc' = IF ltx.kind = "deploy" /\ vm_result # "Ok" THEN "panicked" ELSE "idle"
    /\ ltx' = IF ltx.kind = "deploy" /\ vm_result # "Ok" THEN ltx ELSE NoLtx
    /\ VmDropped
    /\ UNCHANGED <<mode, storage, vm_result, expected, n_inv, post_state,
                   block_root, invoked, sdk_calls>>
    /\ UNCHANGED txvars

VmNext ==
    \/ TestExecute
    \/ TestUnwrap
    \/ Deploy
    \/ CallAndTransfer
    \/ TxReturn
    \/ ModuleNew
    \/ VmStateNew
    \/ DeferredSetMemory
    \/ WriteCalldata
    \/ Instantiate
    \/ FlipperGet
    \/ FlipperSet
    \/ SdkGet
    \/ SdkSet
    \/ SdkPrint
    \/ GuestReturn

TxNext ==
    \/ BeginBlock
    \/ NextTx
    \/ ReadSender
    \/ ReadReceiver
    \/ InsertReceiver
    \/ InsertSender
    \/ ReturnBlock
    \/ AdoptBlock

\* main.rs after create_initial_state(); no contract runs.
TxInit ==
    /\ state = create_initial_state.map
    /\ parent_root = create_initial_state.root
    /\ height = 0
    /\ pc = "idle"
    /\ trie_db = <<>>
    /\ prev_state_root = ZeroHash
    /\ curr_root = ZeroHash
    /\ post_trie = <<>>
    /\ tx = NoTx
    /\ done = <<>>
    /\ sender_bal = 0
    /\ receiver_bal = 0
    /\ root = ZeroHash
    /\ last_change = EmptyChange
    /\ writes = <<>>
    /\ reads = <<>>
    /\ tx_root = ZeroHash
    /\ parent_hash = ZeroHash
    /\ blocks = insert_block(<<>>, RootBlock(create_initial_state.root))
    /\ mode = "transfer"
    /\ storage = <<>>
    /\ cs = NoContractState
    /\ ext_kind = "none"
    /\ vm_pc = "idle"
    /\ wasm = <<>>
    /\ calldata = <<>>
    /\ memory_slot = "None"
    /\ guest_mem = <<>>
    /\ g_calls = 0
    /\ vm_result = "none"
    /\ last_call = NoCall
    /\ expected = <<>>
    /\ n_inv = 0
    /\ post_state = <<>>
    /\ block_root = EMPTY_TRIE_HASH
    /\ ltx = NoLtx
    /\ invoked = {}
    /\ sdk_calls = 0

\* The test harness of vm.rs after TestExt::new(), or execute of lib.rs called
\* with an empty GlobalState and the empty root.
VmInit ==
    /\ mode \in {"test", "block"}
    /\ storage = <<>>
    /\ cs = NoContractState
    /\ ext_kind = "none"
    /\ vm_pc = "idle"
    /\ wasm = <<>>
    /\ calldata = <<>>
    /\ memory_slot = "None"
    /\ guest_mem = <<>>
    /\ g_calls = 0
    /\ vm_result = "none"
    /\ last_call = NoCall
    /\ expected = <<>>
    /\ n_inv = 0
    /\ post_state = <<>>
    /\ block_root = EMPTY_TRIE_HASH
    /\ ltx = NoLtx
    /\ invoked = {}
    /\ sdk_calls = 0
    /\ state = create_initial_state.map
    /\ parent_root = create_initial_state.root
    /\ height = 0
    /\ pc = "idle"
    /\ trie_db = <<>>
    /\ prev_state_root = ZeroHash
    /\ curr_root = ZeroHash
    /\ post_trie = <<>>
    /\ tx = NoTx
    /\ done = <<>>
    /\ sender_bal = 0
    /\ receiver_bal = 0
    /\ root = ZeroHash
    /\ last_change = EmptyChange
    /\ writes = <<>>
    /\ reads = <<>>
    /\ tx_root = ZeroHash
    /\ parent_hash = ZeroHash
    /\ blocks = insert_block(<<>>, RootBlock(create_initial_state.root))

\* The transfer executor (the binary built from main.rs).
SpecTx == TxInit /\ [][TxNext]_vars

\* The VM host under the test harness or under execute of lib.rs.
SpecVm == VmInit /\ [][VmNext]_vars

\* ---- apply_changes on any store and any change set

\* Two nodes and their hashes.
StoreNodes == {Leaf(<<1>>, <<1>>), Leaf(<<2>>, <<2>>)}

StoreHashes == {Hash(n) : n \in StoreNodes}

\* Every map from some of the hashes to node bytes: a store, or the adds of a
\* change set.
NodeMaps == UNION {[D -> StoreNodes] : D \in SUBSET StoreHashes}

ChangeSets == [adds : NodeMaps, removes : SUBSET StoreHashes]

ChangesApplied(a) ==
    /\ post_trie' = a.map
    /\ pc' = IF a.panic THEN "apply_panicked" ELSE "applied"

\* main.rs: apply_changes(&mut post_trie, changes)
ApplyChanges ==
    /\ mode = "transfer"
    /\ pc = "apply"
    /\ ChangesApplied(apply_changes(post_trie, last_change))
    /\ UNCHANGED <<state, parent_root, height, trie_db, prev_state_root, curr_root, tx,
                   done, sender_bal, receiver_bal, root, last_change, writes, reads,
                   tx_root, parent_hash, blocks>>
    /\ UNCHANGED vmvars

\* lib.rs: apply_changes(&mut post_state, changes)
LibApplyChanges ==
    /\ mode = "block"
    /\ pc = "apply"
    /\ ChangesApplied(lib_apply_changes(post_trie, last_change))
    /\ UNCHANGED <<state, parent_root, height, trie_db, prev_state_root, curr_root, tx,
                   done, sender_bal, receiver_bal, root, last_change, writes, reads,
                   tx_root, parent_hash, blocks>>
    /\ UNCHANGED vmvars

ApplyNext ==
    \/ ApplyChanges
    \/ LibApplyChanges

\* A store, kept in trie_db as it was handed over, and a change set for it.
ApplyInit ==
    /\ state = <<>>
    /\ parent_root = ZeroHash
    /\ height = 0
    /\ pc = "apply"
    /\ trie_db \in NodeMaps
    /\ prev_state_root = ZeroHash
    /\ curr_root = ZeroHash
    /\ post_trie = trie_db
    /\ tx = NoTx
    /\ done = <<>>
    /\ sender_bal = 0
    /\ receiver_bal = 0
    /\ root = ZeroHash
    /\ last_change \in ChangeSets
    /\ writes = <<>>
    /\ reads = <<>>
    /\ tx_root = ZeroHash
    /\ parent_hash = ZeroHash
    /\ blocks = <<>>
    /\ mode \in {"transfer", "block"}
    /\ storage = <<>>
    /\ cs = NoContractState
    /\ ext_kind = "none"
    /\ vm_pc = "idle"
    /\ wasm = <<>>
    /\ calldata = <<>>
    /\ memory_slot = "None"
    /\ guest_mem = <<>>
    /\ g_calls = 0
    /\ vm_result = "none"
    /\ last_call = NoCall
    /\ expected = <<>>
    /\ n_inv = 0
    /\ post_state = <<>>
    /\ block_root = EMPTY_TRIE_HASH
    /\ ltx = NoLtx
    /\ invoked = {}
    /\ sdk_calls = 0

\* apply_changes of main.rs and of lib.rs as functions of their arguments.
SpecApply == ApplyInit /\ [][ApplyNext]_vars

\* ------------------------------------------------ claims on the executor
Present(r, db, k) == TrieGet(r, db, k).tag = "Some"

Absent(r, db, k) == TrieGet(r, db, k).tag = "None"

BalanceAt(r, db, k) == RlpDecode(TrieGet(r, db, k).val)

\* The first transfer of a block moves a positive amount the sender can pay
\* between two different accounts that both exist under the parent root.
PlainTransfer(t) ==
    /\ t.source # t.dest
    /\ t.amount > 0
    /\ Present(prev_state_root, trie_db, t.source)
    /\ Present(prev_state_root, trie_db, t.dest)
    /\ t.amount <= BalanceAt(prev_state_root, trie_db, t.source)

\* C1: a block of one plain transfer does not abort, and returns a root
\* different from the parent root under which the sender holds its old balance
\* minus the amount and the receiver its old balance plus the amount.
C1_SingleTransfer ==
    /\ (pc = "panicked" /\ done = <<>>) => ~PlainTransfer(tx)
    /\ (pc = "returned" /\ Len(done) = 1 /\ PlainTransfer(done[1])) =>
          /\ curr_root # prev_state_root
          /\ Present(curr_root, post_trie, done[1].source)
          /\ Present(curr_root, post_trie, done[1].dest)
          /\ BalanceAt(curr_root, post_trie, done[1].source)
                = BalanceAt(prev_state_root, trie_db, done[1].source) - done[1].amount
          /\ BalanceAt(curr_root, post_trie, done[1].dest)
                = BalanceAt(prev_state_root, trie_db, done[1].dest) + done[1].amount

C1_Witness == pc = "returned" /\ Len(done) = 1 /\ PlainTransfer(done[1])

\* The sender is absent under the parent root or cannot pay the amount.
BadTransfer(t) ==
    \/ Absent(prev_state_root, trie_db, t.source)
    \/ /\ Present(prev_state_root, trie_db, t.source)
       /\ t.amount > BalanceAt(prev_state_root, trie_db, t.source)

\* C2: a transfer whose sender is absent under the parent root or cannot pay
\* aborts the block, and whenever a block aborts the caller's node store and
\* the parent root are what they were when execute_txs was called.
C2_NoPartialCommit ==
    [][ /\ (pc = "read_sender" /\ BadTransfer(tx)) => pc' = "panicked"
        /\ pc' = "panicked" => (state' = trie_db' /\ parent_root' = prev_state_root')
      ]_vars

C2_Witness ==
    pc = "panicked" /\ Len(done) >= 1 /\ BadTransfer(tx) /\ post_trie # trie_db

Written(k) == {i \in DOMAIN writes : writes[i][1] = k}

\* C3: the returned root commits the block's writes in list order: a key some
\* transaction wrote holds the value of its last write, every other key holds
\* what it held under the parent root.
C3_RootCommitsWrites ==
    pc = "returned" =>
        \A k \in Accounts :
            IF Written(k) # {}
            THEN TrieGet(curr_root, post_trie, k) = GetSome(writes[SetMax(Written(k))][2])
            ELSE TrieGet(curr_root, post_trie, k) = TrieGet(prev_state_root, trie_db, k)

C3_Witness ==
    /\ pc = "returned"
    /\ Len(done) = 2
    /\ \E i, j \in DOMAIN writes :
          i < j /\ writes[i][1] = writes[j][1] /\ writes[i][2] # writes[j][2]

\* C4: every balance read of a block returns what the parent root commits
\* for the key read.
C4_ReadsSeeParentRoot ==
    \A i \in DOMAIN reads :
        reads[i].got = TrieGet(prev_state_root, trie_db, reads[i].key)

\* C5: a transfer to a receiver absent under the parent root completes with
\* the working root advanced and the receiver holding exactly the amount; a
\* transfer from a sender absent under the parent root aborts the block.
C5_LazyReceiver ==
    [][ /\ (pc = "read_sender" /\ Absent(prev_state_root, trie_db, tx.source))
              => pc' = "panicked"
        /\ (pc = "insert_sender" /\ pc' = "loop"
              /\ Absent(prev_state_root, trie_db, tx.dest))
              => /\ curr_root' # tx_root
                 /\ Present(curr_root', post_trie', tx.dest)
                 /\ BalanceAt(curr_root', post_trie', tx.dest) = tx.amount
      ]_vars

C5_Witness ==
    /\ pc = "loop"
    /\ Len(done) >= 1
    /\ Absent(prev_state_root, trie_db, done[Len(done)].dest)
    /\ done[Len(done)].amount > 0

\* The root the executor works on: the local `root` between the two inserts
\* of a transaction, curr_root otherwise.
WorkingRoot == IF pc = "insert_sender" THEN root ELSE curr_root

\* C6: while a block executes, every node reachable from the working root is
\* in the working node store, and the last change set applied removed none of
\* them.
C6_ChangeSetComplete ==
    pc \in {"loop", "read_sender", "read_receiver", "insert_receiver",
            "insert_sender", "returned"} =>
        /\ Reachable(post_trie, WorkingRoot) \subseteq DOMAIN post_trie
        /\ Reachable(post_trie, WorkingRoot) \cap last_change.removes = {}

C6_Witness ==
    /\ pc = "loop"
    /\ Len(done) >= 1
    /\ last_change.removes # {}
    /\ \E i \in DOMAIN reads : reads[i].got.tag = "None"

\* ------------------------------------------------- claims on the VM host
\* The value [b, 0, ..., 0].
FirstByte(b) == [i \in 1..HashLen |-> IF i = 1 THEN b ELSE 0]

\* A host call made by the invocation that is running or has just ended.
CallOfThisInvocation(op) ==
    /\ last_call.op = op
    /\ last_call.inv = n_inv
    /\ vm_pc \in {"guest", "panicked", "returned"}

\* C7: a get_storage host call on a key that was never given to set_storage
\* does not fail and leaves 32 zero bytes at out_ptr, whichever adapter the
\* host runs with (TestExt or ContractState).
C7_MissingKeyReadsZero ==
    (CallOfThisInvocation("get") /\ last_call.prior.val = <<>>)
        => /\ ~last_call.panic
           /\ last_call.val = Zero32
           /\ MemRead(guest_mem, last_call.out_ptr, HashLen).val = Zero32

\* Every invocation so far ran the flipper with calldata [1; 32].
OnlyFlipper ==
    invoked \subseteq {[wasm |-> FlipperWasm, calldata |-> Bytes32Of(1)]}

\* C8: on a shared, initially empty TestExt, after n invocations of the
\* flipper with calldata [1; 32] the value at key [1; 32] is
\* [n mod 2, 0, ..., 0].
C8_FlipperToggles ==
    (mode = "test" /\ vm_pc = "idle" /\ n_inv >= 1 /\ OnlyFlipper)
        => /\ Bytes32Of(1) \in DOMAIN storage
           /\ storage[Bytes32Of(1)] = FirstByte(n_inv % 2)

C8_Witness ==
    /\ mode = "test"
    /\ vm_pc = "idle"
    /\ n_inv = 2
    /\ OnlyFlipper
    /\ storage[Bytes32Of(1)] = Zero32

RECURSIVE PathsBelow(_, _)
\* The nibble paths that hold a value below the node with hash h.
PathsBelow(db, h) ==
    IF h \notin DOMAIN db THEN {}
    ELSE CASE db[h].kind = "leaf" -> {db[h].path}
           [] db[h].kind = "ext" ->
                {db[h].path \o p : p \in PathsBelow(db, db[h].children[1])}
           [] db[h].kind = "branch" ->
                (IF db[h].value = <<>> THEN {} ELSE {<<>>})
                \cup UNION {{<<x>> \o p : p \in PathsBelow(db, db[h].children[x])} :
                               x \in DOMAIN db[h].children}
           [] OTHER -> {}

\* The nibble paths of the entries of the trie with the given root.
TriePaths(r, db) == IF r = EMPTY_TRIE_HASH THEN {} ELSE PathsBelow(db, r)

\* C9: a host call of a contract at address A reads or writes the trie at
\* the key A || key, and every entry of the adapter's trie lies under a key
\* that begins with A.
C9_KeysUnderAddress ==
    ext_kind = "ContractState"
        => /\ \A p \in TriePaths(cs.root, cs.database) :
                 /\ Len(p) = 4 * HashLen
                 /\ Take(p, 2 * HashLen) = ToNibbles(cs.address)
           /\ (last_call.op \in {"get", "set"} /\ last_call.inv = n_inv)
                 => /\ last_call.address = cs.address
                    /\ Len(last_call.key) = HashLen
                    /\ last_call.trie_key = cs.address \o last_call.key

C9_Witness ==
    /\ ext_kind = "ContractState"
    /\ CallOfThisInvocation("set")
    /\ ~last_call.panic
    /\ Cardinality(TriePaths(cs.root, cs.database)) = 2

\* C10: a value given to set_storage in one invocation of a contract address
\* is what get_storage returns for that key in a later invocation of the same
\* address.
C10_StoragePersists ==
    (/\ CallOfThisInvocation("get")
     /\ last_call.address # <<>>
     /\ last_call.prior.val # <<>>
     /\ last_call.prior.inv < last_call.inv)
        => /\ ~last_call.panic
           /\ last_call.val = last_call.prior.val

\* The codes the node store of lib.rs holds under "ContractCode" || address.
StoredCode(address) ==
    {post_state[h].value :
        h \in {x \in DOMAIN post_state :
                  /\ post_state[x].kind = "leaf"
                  /\ post_state[x].path =
                        ToNibbles(keyhash_with_prefix(ContractCodePrefix, address))}}

\* C11: when a Call starts the VM, the wasm it runs is the code stored under
\* "ContractCode" || address and the calldata is the transaction's; a Call
\* to an address without stored code does not start the VM.
C11_CallRunsStoredCode ==
    (mode = "block" /\ ltx.kind = "call" /\ vm_pc = "module_new")
        => /\ StoredCode(ltx.address) = {wasm}
           /\ calldata = ltx.calldata

\* execute_txs has been entered for the block (and has not yet been left by
\* the caller).
InExecuteTxs ==
    pc \in {"loop", "read_sender", "read_receiver", "insert_receiver",
            "insert_sender", "returned", "panicked"}

\* C12: execute_txs runs only for a block whose parent_hash the oracle
\* resolves, and starts from the parent's state_root whatever the incoming
\* block's own state_root is; an unresolvable parent_hash ends the run; the
\* produced block has the incoming parent_hash and txns and the root
\* execute_txs returned, and that root and store are what the caller goes on
\* with.
C12_ExecuteBlock ==
    /\ [](InExecuteTxs => /\ parent_hash \in DOMAIN blocks
                          /\ prev_state_root = blocks[parent_hash].state_root
                          /\ trie_db = state)
    /\ [](pc = "no_parent" => parent_hash \notin DOMAIN blocks)
    /\ [](pc = "returned" =>
             ProducedBlock(parent_hash, curr_root, done)
               = [parent_hash |-> parent_hash, state_root |-> curr_root, txns |-> done])
    /\ [][(pc = "returned" /\ pc' = "idle")
             => /\ parent_root' = curr_root
                /\ state' = post_trie
         ]_vars

C12_Witness ==
    /\ pc = "returned"
    /\ height = 1
    /\ Len(done) >= 1
    /\ curr_root # prev_state_root

\* Another address was given a value for the key of the last host call.
OtherWroteKey ==
    \E p \in DOMAIN expected : p[1] # last_call.address /\ p[2] = last_call.key

\* C13: a get_storage(k) of a contract at address A, after a contract at
\* another address wrote k, does not fail and returns what A last wrote at k,
\* or zeros when A never wrote k.
C13_Isolation ==
    (CallOfThisInvocation("get") /\ last_call.address # <<>> /\ OtherWroteKey)
        => /\ ~last_call.panic
           /\ last_call.val = IF last_call.prior.val = <<>> THEN Zero32
                              ELSE last_call.prior.val

\* The 32 little-endian bytes of a number below 2^24.
LittleEndian32(n) ==
    [i \in 1..HashLen |-> CASE i = 1 -> n % 256
                            [] i = 2 -> (n \div 256) % 256
                            [] i = 3 -> (n \div 65536) % 256
                            [] OTHER -> 0]

\* The guest has been entered and has made no host call yet.
GuestStarts == vm_pc = "guest" /\ g_calls = 0

\* 36 + len bytes lie inside the initial memory.
CalldataFits == 36 + Len(calldata) <= MemBytes

\* C14: when the guest starts, bytes [4, 36) of its memory are the
\* little-endian length of the calldata, bytes [36, 36 + len) are the
\* calldata, and every other byte (bytes [0, 4) among them) is zero as in a
\* new memory; with a calldata that does not fit, vm::execute returns an
\* error and the guest is never entered.
C14_CalldataLayout ==
    /\ GuestStarts =>
          /\ CalldataFits
          /\ MemRead(guest_mem, 4, HashLen).val = LittleEndian32(Len(calldata))
          /\ MemRead(guest_mem, 36, Len(calldata)).val = calldata
          /\ MemRead(guest_mem, 0, 4).val = <<0, 0, 0, 0>>
          /\ DOMAIN guest_mem \subseteq 4..(35 + Len(calldata))
    /\ (vm_pc \in {"instantiate", "guest"}) => CalldataFits
    /\ (vm_pc = "returned" /\ ~CalldataFits) => (vm_result = "Err" /\ last_call = NoCall)

C14_Witness == GuestStarts /\ calldata = Bytes32Of(1)

\* C15: a print host call returns to the guest whatever (ptr, len) it is
\* given, and leaves the storage adapter and the guest memory as they were.
C15_PrintHarmless ==
    [][(vm_pc = "guest" /\ g_calls' = g_calls + 1 /\ last_call'.op = "print")
          => /\ vm_pc' = "guest"
             /\ ~last_call'.panic
             /\ storage' = storage
             /\ cs' = cs
             /\ guest_mem' = guest_mem
      ]_vars

\* The balance an account holds under a root: zero when the key is absent.
Holding(r, db, k) == IF Present(r, db, k) THEN BalanceAt(r, db, k) ELSE 0

RECURSIVE SupplyOf(_, _, _)
\* The sum of the balances the accounts of S hold under a root.
SupplyOf(r, db, S) ==
    IF S = {} THEN 0
    ELSE LET k == CHOOSE x \in S : TRUE
         IN  Holding(r, db, k) + SupplyOf(r, db, S \ {k})

\* C16: when execute_txs returns, the balances under the returned root add up
\* to what the balances under the parent root add up to.
C16_SupplyConserved ==
    pc = "returned"
        => SupplyOf(curr_root, post_trie, Accounts) = SupplyOf(prev_state_root, trie_db, Accounts)

BalanceInsert(r, k, bal) == TrieInsert(r, post_trie, k, RlpEncode(bal))

\* C19: the receiver's balance is inserted on the working root; the sender's
\* insert comes next, on the root the receiver insert returned and over the
\* store with the receiver's change set applied (so the receiver's balance is
\* readable under that root and the sender's insert finds every node of its
\* path), and the root it returns is the working root after the transfer.
C19_ReceiverThenSender ==
    /\ [](pc = "insert_sender"
            => /\ writes[Len(writes)] = <<tx.dest, RlpEncode(receiver_bal)>>
               /\ TrieGet(root, post_trie, tx.dest) = GetSome(RlpEncode(receiver_bal)))
    /\ [][/\ (pc = "insert_receiver" /\ pc' = "insert_sender")
                => /\ root' = BalanceInsert(curr_root, tx.dest, receiver_bal).root
                   /\ curr_root' = curr_root
          /\ pc = "insert_sender"
                => /\ pc' = "loop"
                   /\ writes' = Append(writes, <<tx.source, RlpEncode(sender_bal)>>)
                   /\ root' = BalanceInsert(root, tx.source, sender_bal).root
                   /\ curr_root' = root'
         ]_vars

\* A transfer between two accounts has completed: its two writes are the
\* receiver's and then the sender's, and the working root is the sender's root.
C19_Witness ==
    /\ pc = "loop"
    /\ Len(done) >= 1
    /\ tx.source # tx.dest
    /\ tx.amount > 0
    /\ Len(writes) >= 2
    /\ writes[Len(writes) - 1][1] = tx.dest
    /\ writes[Len(writes)][1] = tx.source
    /\ curr_root = root
    /\ BalanceAt(curr_root, post_trie, tx.dest) = receiver_bal
    /\ BalanceAt(curr_root, post_trie, tx.source) = sender_bal

\* C20: from the calldata writes to the end of the entrypoint the memory slot
\* of the VM state is set, and every host call (get_storage, set_storage,
\* print) is made with the slot set.
C20_MemorySlotSet ==
    /\ [](vm_pc \in {"write_calldata", "instantiate", "guest"} => memory_slot = "Some")
    /\ [][(last_call' # last_call /\ last_call'.op \in {"get", "set", "print"})
             => memory_slot = "Some"
         ]_vars

\* A host call of the running contract has returned to the guest.
C20_Witness ==
    /\ vm_pc = "guest"
    /\ g_calls >= 1
    /\ CallOfThisInvocation("print")
    /\ ~last_call.panic
    /\ memory_slot = "Some"

\* C21: every host call finds the cell of the VM state free of any borrow
\* that conflicts with its own, and leaves it free: no borrow conflict, and
\* no borrow outlives the call that took it.
C21_BorrowsReleased ==
    last_call.op \in {"get", "set", "print"}
        => /\ ~last_call.cell.conflict
           /\ last_call.cell = FreeCell

\* The second host call of one invocation has returned to the guest.
C21_Witness ==
    /\ vm_pc = "guest"
    /\ g_calls = 2
    /\ CallOfThisInvocation("set")
    /\ ~last_call.panic
    /\ last_call.cell = FreeCell

\* C22: whatever Deploys a block has made, no contract address has two
\* different codes stored under its "ContractCode" || address key.
C22_OneCodePerAddress ==
    \A d \in Deploys : Cardinality(StoredCode(DeployAddress(d[1], d[2]))) <= 1

====
